---- MODULE Spec2Model ----
(***************************************************************************)
(* Model of the Kiwi Menu user switcher (src/src/userSwitcher.js):         *)
(* countRealUsers, UserSwitcherController and UserSwitcherButton, together *)
(* with the AccountsService user manager and the login1 session manager    *)
(* they observe.                                                           *)
(***************************************************************************)
EXTENDS Integers, Sequences, FiniteSets, TLC

VARIABLES
  isLoaded,        \* AccountsService.UserManager.is_loaded
  userList,        \* what UserManager.list_users() returns
  sessionList,     \* the sessions login1's ListSessions returns
  busUp,           \* whether calls to org.freedesktop.login1 succeed
  handlers,        \* the connected signal handlers: [id, object, signal, owner]
  nextHandlerId,   \* the id the next connect() returns
  ctl,             \* the UserSwitcherController's fields
  btn,             \* the UserSwitcherButton's fields (the current or last button)
  panel,           \* Main.panel: how often the switcher was added and removed
  host,            \* the shell around the button: screen shield, Clutter's repaint functions, Gdm
  sel,             \* the last click on a user's widget and what _activateUser did
  disconnects,     \* the handler ids disconnect() was called with, in call order
  call             \* the last direct call of a function and what it returned

vars == <<isLoaded, userList, sessionList, busUp, handlers, nextHandlerId, ctl, btn, panel,
          host, sel, disconnects, call>>

\* ------------------------------------------------------------------ bounds
MaxUsers == 3
MaxSessions == 3
MaxMounts == 2
MaxLiveSessions == 3
MaxClicks == 3

\* ------------------------------------------------------- program constants
MINIMUM_VISIBLE_UID == 1000

\* GLib.get_user_name(): the user the shell runs as.
CurrentUserName == "alice"

\* ------------------------------------------------------- Number.parseInt
Digits == {"0", "1", "2", "3", "4", "5", "6", "7", "8", "9"}

DigitValue(c) ==
  CASE c = "0" -> 0 [] c = "1" -> 1 [] c = "2" -> 2 [] c = "3" -> 3 [] c = "4" -> 4
    [] c = "5" -> 5 [] c = "6" -> 6 [] c = "7" -> 7 [] c = "8" -> 8 [] c = "9" -> 9

NaN == [nan |-> TRUE, val |-> 0]

Num(n) == [nan |-> FALSE, val |-> n]

RECURSIVE SkipWhitespace(_)
SkipWhitespace(s) ==
  IF s # <<>> /\ Head(s) = " " THEN SkipWhitespace(Tail(s)) ELSE s

RECURSIVE ParseDigits(_, _)
\* The value of the longest prefix of digits of s, continuing from acc.
ParseDigits(s, acc) ==
  IF s = <<>> \/ Head(s) \notin Digits
    THEN acc
    ELSE ParseDigits(Tail(s), acc * 10 + DigitValue(Head(s)))

\* Number.parseInt(text, 10) of a string given as its characters: leading
\* whitespace is skipped, one sign is read, then digits up to the first other
\* character; no digit at all gives NaN.
ParseInt(text) ==
  LET t    == SkipWhitespace(text)
      sign == IF t # <<>> /\ Head(t) = "-" THEN -1 ELSE 1
      body == IF t # <<>> /\ Head(t) \in {"-", "+"} THEN Tail(t) ELSE t
  IN IF body = <<>> \/ Head(body) \notin Digits
       THEN NaN
       ELSE Num(sign * ParseDigits(body, 0))

\* Number.isFinite
IsFinite(n) == ~n.nan

\* ------------------------------------------------------- account records
\* A value get_uid() may return: null/undefined (or no get_uid at all), or
\* something whose string form is text.
NullUid == [null |-> TRUE, text |-> <<>>]

Uid(text) == [null |-> FALSE, text |-> text]

ActUser(name, real, uid, sys, loaded) ==
  [user_name |-> name, real_name |-> real, uid |-> uid,
   system_account |-> sys, is_loaded |-> loaded]

UID_1000 == Uid(<<"1", "0", "0", "0">>)
UID_1001 == Uid(<<"1", "0", "0", "1">>)
UID_999  == Uid(<<"9", "9", "9">>)
UID_0    == Uid(<<"0">>)
UID_BAD  == Uid(<<"x">>)

\* The account records the directory may hold.
UserPool ==
  { ActUser("alice", "Alice", UID_1000, FALSE, TRUE),
    ActUser("alice", "",      UID_0,    TRUE,  TRUE),
    ActUser("alice", "Alice", NullUid,  FALSE, TRUE),
    ActUser("alice", "Alice", UID_BAD,  FALSE, TRUE),
    ActUser("alice", "Alice", UID_1000, FALSE, FALSE),
    ActUser("bob",   "Bob",   UID_1001, FALSE, TRUE),
    ActUser("bob",   "",      UID_1001, FALSE, TRUE),
    ActUser("bob",   "Bob",   UID_1001, TRUE,  TRUE),
    ActUser("bob",   "Bob",   UID_999,  FALSE, TRUE),
    ActUser("bob",   "Bob",   UID_1001, FALSE, FALSE),
    ActUser("bob",   "Bob",   UID_BAD,  FALSE, TRUE),
    ActUser("bob",   "Bob",   NullUid,  FALSE, TRUE),
    ActUser("carol", "Bob",   UID_1000, FALSE, TRUE),
    ActUser("carol", "",      UID_1000, FALSE, TRUE),
    ActUser("carol", "Alice", UID_1000, FALSE, TRUE),
    ActUser("",      "Ghost", UID_1000, FALSE, TRUE) }

\* Usernames are the accounts' key: no two records of a list share one.
UniqueNames(list) ==
  \A i, j \in 1..Len(list) :
    (i # j /\ list[i].user_name # "") => list[i].user_name # list[j].user_name

UserListsOver(pool) ==
  { l \in UNION { [1..n -> pool] : n \in 0..MaxUsers } : UniqueNames(l) }

\* ------------------------------------------------------- countRealUsers
RECURSIVE CountLoopSystemToo(_, _)
\* countRealUsers' loop without the test of system_account
CountLoopSystemToo(list, realUserCount) ==
  IF list = <<>> THEN realUserCount
  ELSE
    LET user == Head(list)
        uid  == ParseInt(IF user.uid.null THEN <<"-", "1">> ELSE user.uid.text)
    IN IF ~user.is_loaded THEN CountLoopSystemToo(Tail(list), realUserCount)
       ELSE IF ~IsFinite(uid) THEN CountLoopSystemToo(Tail(list), realUserCount)
       ELSE IF user.user_name = "" THEN CountLoopSystemToo(Tail(list), realUserCount)
       ELSE IF uid.val >= MINIMUM_VISIBLE_UID
         THEN CountLoopSystemToo(Tail(list), realUserCount + 1)
         ELSE CountLoopSystemToo(Tail(list), realUserCount)

RECURSIVE CountLoop(_, _)
\* The loop of countRealUsers over the rest of the list, from realUserCount.
CountLoop(list, realUserCount) ==
  IF list = <<>> THEN realUserCount
  ELSE
    LET user == Head(list)
        uid  == ParseInt(IF user.uid.null THEN <<"-", "1">> ELSE user.uid.text)
    IN IF ~user.is_loaded THEN CountLoop(Tail(list), realUserCount)
       ELSE IF ~IsFinite(uid) THEN CountLoop(Tail(list), realUserCount)
       ELSE IF user.user_name = "" THEN CountLoop(Tail(list), realUserCount)
       ELSE IF uid.val >= MINIMUM_VISIBLE_UID /\ ~user.system_account
         THEN CountLoop(Tail(list), realUserCount + 1)
         ELSE CountLoop(Tail(list), realUserCount)

\* countRealUsers(userManager): userManager is FALSE for null.
countRealUsers(userManager, loaded, list) ==
  IF ~userManager \/ ~loaded THEN 0 ELSE CountLoop(list, 0)

\* ------------------------------------------------------- _compareUsers
\* The collation key of a string under the session's locale: GLib.utf8_collate
\* orders strings by it.
CollationKey(s) ==
  CASE s = ""      -> 0
    [] s = "alice" -> 1
    [] s = "Alice" -> 2
    [] s = "bob"   -> 3
    [] s = "Bob"   -> 4
    [] s = "carol" -> 5
    [] s = "Ghost" -> 6

utf8_collate(a, b) ==
  IF CollationKey(a) < CollationKey(b) THEN -1
  ELSE IF CollationKey(a) > CollationKey(b) THEN 1 ELSE 0

\* get_real_name() || get_user_name() || ''
DisplayName(user) ==
  IF user.real_name # "" THEN user.real_name ELSE user.user_name

\* _compareUsers without putting the current user first
CompareIgnoringCurrent(a, b, currentUserName) ==
  utf8_collate(DisplayName(a), DisplayName(b))

\* _compareUsers comparing the real names alone, with no username to fall back on
CompareRealNames(a, b, currentUserName) ==
  LET aIsCurrent == a.user_name = currentUserName
      bIsCurrent == b.user_name = currentUserName
  IN IF aIsCurrent /\ ~bIsCurrent THEN -1
     ELSE IF ~aIsCurrent /\ bIsCurrent THEN 1
     ELSE utf8_collate(a.real_name, b.real_name)

_compareUsers(a, b, currentUserName) ==
  LET aIsCurrent == a.user_name = currentUserName
      bIsCurrent == b.user_name = currentUserName
  IN IF aIsCurrent /\ ~bIsCurrent THEN -1
     ELSE IF ~aIsCurrent /\ bIsCurrent THEN 1
     ELSE utf8_collate(DisplayName(a), DisplayName(b))

\* ------------------------------------------------------- _collectVisibleUsers
\* The filter callback with > for >= at the smallest visible uid
IsVisibleUserAboveMinimum(user, currentUserName) ==
  LET uid == ParseInt(IF user.uid.null THEN <<"-", "1">> ELSE user.uid.text)
  IN IF ~user.is_loaded THEN FALSE
     ELSE IF ~IsFinite(uid) THEN FALSE
     ELSE IF user.user_name = "" THEN FALSE
     ELSE IF user.user_name = currentUserName THEN TRUE
     ELSE uid.val > MINIMUM_VISIBLE_UID /\ ~user.system_account

\* The filter callback keeping the current user before it looks at the record
IsVisibleUserCurrentFirst(user, currentUserName) ==
  LET uid == ParseInt(IF user.uid.null THEN <<"-", "1">> ELSE user.uid.text)
  IN IF user.user_name = currentUserName THEN TRUE
     ELSE IF ~user.is_loaded THEN FALSE
     ELSE IF ~IsFinite(uid) THEN FALSE
     ELSE IF user.user_name = "" THEN FALSE
     ELSE uid.val >= MINIMUM_VISIBLE_UID /\ ~user.system_account

\* The filter callback of _collectVisibleUsers.
IsVisibleUser(user, currentUserName) ==
  LET uid == ParseInt(IF user.uid.null THEN <<"-", "1">> ELSE user.uid.text)
  IN IF ~user.is_loaded THEN FALSE
     ELSE IF ~IsFinite(uid) THEN FALSE
     ELSE IF user.user_name = "" THEN FALSE
     ELSE IF user.user_name = currentUserName THEN TRUE
     ELSE uid.val >= MINIMUM_VISIBLE_UID /\ ~user.system_account

\* Array.prototype.filter
FilterUsers(list, currentUserName) ==
  SelectSeq(list, LAMBDA user : IsVisibleUser(user, currentUserName))

RECURSIVE InsertUser(_, _, _)
\* x put into the sorted sequence before the first element it compares below.
InsertUser(sorted, x, currentUserName) ==
  IF sorted = <<>> THEN <<x>>
  ELSE IF _compareUsers(x, Head(sorted), currentUserName) < 0
    THEN <<x>> \o sorted
    ELSE <<Head(sorted)>> \o InsertUser(Tail(sorted), x, currentUserName)

RECURSIVE SortUsers(_, _, _)
\* Array.prototype.sort with _compareUsers: a stable sort, the elements of
\* list inserted one by one into sorted.
SortUsers(list, sorted, currentUserName) ==
  IF list = <<>> THEN sorted
  ELSE SortUsers(Tail(list), InsertUser(sorted, Head(list), currentUserName),
                 currentUserName)

_collectVisibleUsers(list, currentUserName) ==
  SortUsers(FilterUsers(list, currentUserName), <<>>, currentUserName)

\* ------------------------------------------------------- login1 sessions
\* One entry of ListSessions, [sessionId, uid, userName, seat, sessionPath],
\* with the Class and Active properties its session object answers ("null":
\* the property could not be read).
Session(id, name, path, class, active) ==
  [sessionId |-> id, userName |-> name, seat |-> "seat0", sessionPath |-> path,
   Class |-> class, Active |-> active]

\* '/org/freedesktop/login1/session/', as the segments of the path
SessionPathPrefix == <<"org", "freedesktop", "login1", "session">>

SessionPath(leaf) == SessionPathPrefix \o <<leaf>>

\* String.prototype.startsWith on paths given as their segments
StartsWith(path, prefix) ==
  Len(path) >= Len(prefix) /\ SubSeq(path, 1, Len(prefix)) = prefix

SessionPool ==
  { Session("1", "alice", SessionPath("_31"), "user",    "true"),
    Session("2", "bob",   SessionPath("_32"), "user",    "false"),
    Session("3", "bob",   SessionPath("_33"), "user",    "true"),
    Session("4", "bob",   SessionPath("_34"), "greeter", "true"),
    Session("5", "bob",   SessionPath("_35"), "user",    "null"),
    Session("6", "carol", SessionPath("_36"), "user",    "false"),
    Session("7", "",      SessionPath("_37"), "user",    "true"),
    Session("8", "carol", <<"org", "freedesktop", "login1", "user", "_1000">>,
            "null", "null") }

\* Session ids are unique in one answer of ListSessions.
UniqueSessionIds(list) ==
  \A i, j \in 1..Len(list) : i # j => list[i].sessionId # list[j].sessionId

SessionLists ==
  { l \in UNION { [1..n -> SessionPool] : n \in 0..MaxSessions } : UniqueSessionIds(l) }

\* _getSessionClass(sessionPath): null unless the path names a session object.
_getSessionClass(entry) ==
  IF ~StartsWith(entry.sessionPath, SessionPathPrefix) THEN "null" ELSE entry.Class

\* _getSessionActiveState(sessionPath)
_getSessionActiveState(entry) ==
  IF ~StartsWith(entry.sessionPath, SessionPathPrefix) THEN "null" ELSE entry.Active

\* new Map()
EmptyMap == [k \in {} |-> k]

\* Map.prototype.set
MapSet(map, key, value) ==
  [k \in DOMAIN map \cup {key} |-> IF k = key THEN value ELSE map[k]]

NoSessionInfo == [loggedInUsers |-> {}, sessions |-> EmptyMap]

\* rawList unwrapped: the list of entries the loop runs over. An empty answer
\* is not unwrapped and gives one entry without fields, which the loop skips.
UnwrapRawList(list) ==
  IF list # <<>> THEN list
  ELSE << Session("", "", <<>>, "null", "null") >>

RECURSIVE SessionLoopLastWins(_, _)
\* The loop of _getSessionInfo keeping the last user session of each user
SessionLoopLastWins(list, info) ==
  IF list = <<>> THEN info
  ELSE
    LET e     == Head(list)
        info1 == [info EXCEPT !.loggedInUsers = @ \cup {e.userName}]
        isActive == _getSessionActiveState(e)
    IN IF e.userName = "" THEN SessionLoopLastWins(Tail(list), info)
       ELSE IF ~StartsWith(e.sessionPath, SessionPathPrefix)
         THEN SessionLoopLastWins(Tail(list), info1)
       ELSE IF _getSessionClass(e) # "user" THEN SessionLoopLastWins(Tail(list), info1)
       ELSE SessionLoopLastWins(Tail(list),
              [info1 EXCEPT !.sessions =
                 MapSet(@, e.userName,
                        [sessionId |-> e.sessionId, seat |-> e.seat,
                         sessionClass |-> "user", isActive |-> (isActive = "true")])])

RECURSIVE SessionLoop(_, _)
\* The loop of _getSessionInfo over the rest of the entries.
SessionLoop(list, info) ==
  IF list = <<>> THEN info
  ELSE
    LET e     == Head(list)
        info1 == [info EXCEPT !.loggedInUsers = @ \cup {e.userName}]
        isActive == _getSessionActiveState(e)
        hasExisting == e.userName \in DOMAIN info1.sessions
    IN IF e.userName = "" THEN SessionLoop(Tail(list), info)
       ELSE IF ~StartsWith(e.sessionPath, SessionPathPrefix)
         THEN SessionLoop(Tail(list), info1)
       ELSE IF _getSessionClass(e) # "user" THEN SessionLoop(Tail(list), info1)
       ELSE IF ~hasExisting
               \/ (isActive = "true" /\ ~info1.sessions[e.userName].isActive)
         THEN SessionLoop(Tail(list),
                [info1 EXCEPT !.sessions =
                   MapSet(@, e.userName,
                          [sessionId |-> e.sessionId, seat |-> e.seat,
                           sessionClass |-> "user", isActive |-> (isActive = "true")])])
         ELSE SessionLoop(Tail(list), info1)

\* _ensureLoginManagerProxy making a new proxy at every call
EnsureLoginManagerProxyAnew(b, up) ==
  [b EXCEPT !.loginManagerProxy = up]

\* _ensureLoginManagerProxy on the button b: the button afterwards. The proxy
\* is kept once made; making it fails while the bus is down.
_ensureLoginManagerProxy(b, up) ==
  IF b.loginManagerProxy THEN b
  ELSE [b EXCEPT !.loginManagerProxy = up]

\* _getSessionInfo on the button b: the button afterwards and the result.
_getSessionInfo(b, up, list) ==
  LET b1 == _ensureLoginManagerProxy(b, up)
  IN IF ~b1.loginManagerProxy THEN [btn |-> b1, info |-> NoSessionInfo]
     ELSE IF ~up THEN [btn |-> b1, info |-> NoSessionInfo]
     ELSE [btn |-> b1, info |-> SessionLoop(UnwrapRawList(list), NoSessionInfo)]

\* ------------------------------------------------------- signals
UserManagerSignals ==
  {"notify::is-loaded", "user-added", "user-removed", "user-changed",
   "user-is-logged-in-changed"}

\* connect() of the signals sigs, in order, for owner on object: the handlers
\* afterwards. The ids are first, first + 1, ...
Connect(hs, first, object, sigs, owner) ==
  hs \cup { [id |-> first + i - 1, object |-> object, signal |-> sigs[i], owner |-> owner]
            : i \in 1..Len(sigs) }

\* disconnect() of every id of ids that is > 0
Disconnect(hs, ids) ==
  { h \in hs : ~(\E i \in 1..Len(ids) : ids[i] > 0 /\ ids[i] = h.id) }

\* The disconnect() calls of every id of ids that is > 0, added to the log.
Disconnecting(log, ids) ==
  log \o SelectSeq(ids, LAMBDA id : id > 0)

\* Whether owner's handler of signal on object is connected.
Connected(hs, object, signal, owner) ==
  \E h \in hs : h.object = object /\ h.signal = signal /\ h.owner = owner

\* The part of the state the shell's objects make up.
Shell == [handlers |-> handlers, nextHandlerId |-> nextHandlerId, ctl |-> ctl,
          btn |-> btn, panel |-> panel, host |-> host, sel |-> sel,
          disconnects |-> disconnects]

\* The primed variables of that part are those of s.
ShellBecomes(s) ==
  /\ handlers' = s.handlers
  /\ nextHandlerId' = s.nextHandlerId
  /\ ctl' = s.ctl
  /\ btn' = s.btn
  /\ panel' = s.panel
  /\ host' = s.host
  /\ sel' = s.sel
  /\ disconnects' = s.disconnects

\* ------------------------------------------------------- UserSwitcherButton
\* No button: the fields of a button that was never made.
NoButton ==
  [alive |-> FALSE, userManager |-> FALSE, menuSignals |-> <<>>,
   menuOpenSignalId |-> 0, repaintFuncId |-> 0, loginManagerProxy |-> FALSE,
   menu |-> <<>>]

MenuItem(kind, rows) == [kind |-> kind, rows |-> rows]

\* _createUserWidget: what the widget of one user shows.
_createUserWidget(user, currentUserName, sessionInfo) ==
  [user |-> user,
   displayName |-> DisplayName(user),
   isCurrent |-> (user.user_name = currentUserName),
   isSignedIn |-> (user.user_name \in sessionInfo.loggedInUsers)]

\* _rebuildMenu adding the grid also when there is no user to show
RebuildMenuWithoutPlaceholder(s, loaded, list, up, sessions) ==
  IF ~s.btn.userManager \/ ~s.btn.alive THEN s
  ELSE IF ~loaded THEN s
  ELSE
    LET cleared == <<>>
        users == _collectVisibleUsers(list, CurrentUserName)
        got   == _getSessionInfo(s.btn, up, sessions)
        first == MenuItem("grid",
                   [i \in 1..Len(users) |->
                      _createUserWidget(users[i], CurrentUserName, got.info)])
    IN [s EXCEPT !.btn = [got.btn EXCEPT !.menu =
          cleared \o <<first,
                       MenuItem("separator", <<>>),
                       MenuItem("Login Window...", <<>>),
                       MenuItem("separator", <<>>),
                       MenuItem("Users & Groups Settings...", <<>>)>>]]

\* _rebuildMenu without menu.removeAll()
RebuildMenuKeepingItems(s, loaded, list, up, sessions) ==
  IF ~s.btn.userManager \/ ~s.btn.alive THEN s
  ELSE IF ~loaded THEN s
  ELSE
    LET users == _collectVisibleUsers(list, CurrentUserName)
        got   == _getSessionInfo(s.btn, up, sessions)
        first == IF Len(users) = 0
                   THEN MenuItem("placeholder", <<>>)
                   ELSE MenuItem("grid",
                          [i \in 1..Len(users) |->
                             _createUserWidget(users[i], CurrentUserName, got.info)])
    IN [s EXCEPT !.btn = [got.btn EXCEPT !.menu =
          s.btn.menu \o <<first,
                          MenuItem("separator", <<>>),
                          MenuItem("Login Window...", <<>>),
                          MenuItem("separator", <<>>),
                          MenuItem("Users & Groups Settings...", <<>>)>>]]

\* _rebuildMenu on the button of s.
_rebuildMenu(s, loaded, list, up, sessions) ==
  IF ~s.btn.userManager \/ ~s.btn.alive THEN s
  ELSE IF ~loaded THEN s
  ELSE
    LET cleared == <<>>   \* this.menu.removeAll()
        users == _collectVisibleUsers(list, CurrentUserName)
        got   == _getSessionInfo(s.btn, up, sessions)
        first == IF Len(users) = 0
                   THEN MenuItem("placeholder", <<>>)
                   ELSE MenuItem("grid",
                          [i \in 1..Len(users) |->
                             _createUserWidget(users[i], CurrentUserName, got.info)])
    IN [s EXCEPT !.btn = [got.btn EXCEPT !.menu =
          cleared \o <<first,
                       MenuItem("separator", <<>>),
                       MenuItem("Login Window...", <<>>),
                       MenuItem("separator", <<>>),
                       MenuItem("Users & Groups Settings...", <<>>)>>]]

\* UserSwitcherButton._initUserManager on the button of s.
ButtonInitUserManager(s, loaded, list, up, sessions) ==
  LET s1 == [s EXCEPT
               !.btn.userManager = TRUE,
               !.btn.menuSignals = [i \in 1..5 |-> s.nextHandlerId + i - 1],
               !.handlers = Connect(@, s.nextHandlerId, "userManager",
                              <<"notify::is-loaded", "user-added", "user-removed",
                                "user-changed", "user-is-logged-in-changed">>, "button"),
               !.nextHandlerId = @ + 5]
  IN IF loaded THEN _rebuildMenu(s1, loaded, list, up, sessions) ELSE s1

\* new UserSwitcherButton(extension): _init
NewButton(s, loaded, list, up, sessions) ==
  LET s1 == [s EXCEPT
               !.btn = [NoButton EXCEPT !.alive = TRUE,
                                        !.menuOpenSignalId = s.nextHandlerId],
               !.handlers = Connect(@, s.nextHandlerId, "menu",
                              <<"open-state-changed">>, "button"),
               !.nextHandlerId = @ + 1]
  IN ButtonInitUserManager(s1, loaded, list, up, sessions)

\* _disconnectUserManagerSignals forgetting the ids without disconnecting them
ButtonForgetUserManagerSignals(s) ==
  IF ~s.btn.userManager THEN s
  ELSE [s EXCEPT !.btn.menuSignals = <<>>]

\* UserSwitcherButton._disconnectUserManagerSignals
ButtonDisconnectUserManagerSignals(s) ==
  IF ~s.btn.userManager THEN s
  ELSE [s EXCEPT !.handlers = Disconnect(@, s.btn.menuSignals),
                 !.disconnects = Disconnecting(@, s.btn.menuSignals),
                 !.btn.menuSignals = <<>>]

\* _clearRepaintFunc: Clutter.threads_remove_repaint_func of the id the
\* button holds, if it holds one.
_clearRepaintFunc(s) ==
  IF s.btn.repaintFuncId # 0
    THEN [s EXCEPT !.host.repaintFuncs = @ \ {s.btn.repaintFuncId},
                   !.btn.repaintFuncId = 0]
    ELSE s

\* destroy() without this._clearRepaintFunc()
ButtonDestroyKeepingRepaintFunc(s) ==
  LET s1 == ButtonDisconnectUserManagerSignals(s)
      s2 == IF s1.btn.menuOpenSignalId # 0
              THEN [s1 EXCEPT !.handlers = Disconnect(@, <<s1.btn.menuOpenSignalId>>),
                              !.disconnects = Disconnecting(@, <<s1.btn.menuOpenSignalId>>),
                              !.btn.menuOpenSignalId = 0]
              ELSE s1
  IN [s2 EXCEPT !.btn = [s2.btn EXCEPT !.loginManagerProxy = FALSE,
                                       !.userManager = FALSE,
                                       !.alive = FALSE,
                                       !.menu = <<>>],
                !.panel.removed = @ + 1]

\* UserSwitcherButton.destroy: the button leaves the panel with it.
ButtonDestroy(s) ==
  LET s1 == ButtonDisconnectUserManagerSignals(s)
      s2 == IF s1.btn.menuOpenSignalId # 0
              THEN [s1 EXCEPT !.handlers = Disconnect(@, <<s1.btn.menuOpenSignalId>>),
                              !.disconnects = Disconnecting(@, <<s1.btn.menuOpenSignalId>>),
                              !.btn.menuOpenSignalId = 0]
              ELSE s1
      s3 == _clearRepaintFunc(s2)
  IN [s3 EXCEPT !.btn = [s3.btn EXCEPT !.loginManagerProxy = FALSE,
                                       !.userManager = FALSE,
                                       !.alive = FALSE,
                                       !.menu = <<>>],
                !.panel.removed = @ + 1]

\* ------------------------------------------------------- the login window
\* _gotoLoginWindow without this._clearRepaintFunc()
GotoLoginWindowKeepingRepaintFunc(s) ==
  LET s1 == [s EXCEPT !.host.handoffRequests = @ + 1,
                      !.host.lockRequests = IF s.host.screenShield THEN @ + 1 ELSE @]
      id == s1.host.nextRepaintFuncId
  IN [s1 EXCEPT !.host.repaintFuncs = @ \cup {id},
                !.host.nextRepaintFuncId = id + 1,
                !.btn.repaintFuncId = id]

\* _gotoLoginWindow calling Gdm.goto_login_session_sync itself, right after
\* the lock request
GotoLoginWindowAtOnce(s) ==
  LET s1 == [s EXCEPT !.host.handoffRequests = @ + 1,
                      !.host.lockRequests = IF s.host.screenShield THEN @ + 1 ELSE @]
      s2 == _clearRepaintFunc(s1)
  IN [s2 EXCEPT !.host.handoffs = @ + 1,
                !.host.lastHandoff = "done"]

\* _gotoLoginWindow: Main.screenShield.lock(false) if there is a screen
\* shield, then the repaint function held is removed, then a new one is
\* registered with Clutter for the end of the next paint.
_gotoLoginWindow(s) ==
  LET s1 == [s EXCEPT !.host.handoffRequests = @ + 1,
                      !.host.lockRequests = IF s.host.screenShield THEN @ + 1 ELSE @]
      s2 == _clearRepaintFunc(s1)
      id == s2.host.nextRepaintFuncId
  IN [s2 EXCEPT !.host.repaintFuncs = @ \cup {id},
                !.host.nextRepaintFuncId = id + 1,
                !.btn.repaintFuncId = id]

\* Clutter finished painting a frame: every registered repaint function runs
\* once. The button's sets _repaintFuncId to 0, calls
\* Gdm.goto_login_session_sync, logs the error if that throws (ok is whether
\* it succeeds), and returns false, which unregisters it.
RunRepaintFuncs(s, ok) ==
  LET n == Cardinality(s.host.repaintFuncs)
  IN IF n = 0 THEN s
     ELSE [s EXCEPT !.btn.repaintFuncId = 0,
                    !.host.handoffs = @ + n,
                    !.host.lastHandoff = IF ok THEN "done" ELSE "failed",
                    !.host.repaintFuncs = {}]

\* ------------------------------------------------------- switching users
\* _activateUserSession returning true after the try block, also when the
\* ActivateSession call threw
ActivateUserSessionIgnoringFailure(s, username, up, sessions, ok) ==
  LET got == _getSessionInfo(s.btn, up, sessions)
      s1  == [s EXCEPT !.btn = got.btn]
  IN IF username \notin DOMAIN got.info.sessions
       THEN [s |-> s1, activated |-> FALSE, sessionId |-> "", failed |-> FALSE]
     ELSE
       LET b2 == _ensureLoginManagerProxy(s1.btn, up)
       IN IF ~b2.loginManagerProxy
            THEN [s |-> [s1 EXCEPT !.btn = b2], activated |-> FALSE, sessionId |-> "",
                  failed |-> FALSE]
            ELSE [s |-> [s1 EXCEPT !.btn = b2],
                  activated |-> TRUE,
                  sessionId |-> got.info.sessions[username].sessionId,
                  failed |-> ~ok]

\* _activateUserSession trusting the signed-in mark of the user's widget in
\* the menu as it was built: no mark, no session
ActivateUserSessionFromMenu(s, username, up, sessions, ok) ==
  LET got == _getSessionInfo(s.btn, up, sessions)
      s1  == [s EXCEPT !.btn = got.btn]
      marked == \E k \in DOMAIN s.btn.menu[1].rows :
                  /\ s.btn.menu[1].rows[k].user.user_name = username
                  /\ s.btn.menu[1].rows[k].isSignedIn
  IN IF ~marked \/ username \notin DOMAIN got.info.sessions
       THEN [s |-> s1, activated |-> FALSE, sessionId |-> "", failed |-> FALSE]
     ELSE
       LET b2 == _ensureLoginManagerProxy(s1.btn, up)
       IN IF ~b2.loginManagerProxy
            THEN [s |-> [s1 EXCEPT !.btn = b2], activated |-> FALSE, sessionId |-> "",
                  failed |-> FALSE]
            ELSE [s |-> [s1 EXCEPT !.btn = b2],
                  activated |-> ok,
                  sessionId |-> got.info.sessions[username].sessionId,
                  failed |-> ~ok]

\* _activateUserSession(username): the shell afterwards, whether it returned
\* true, the session id ActivateSession was called with ("" if it was not
\* called) and whether that call threw. ok is whether the call succeeds.
_activateUserSession(s, username, up, sessions, ok) ==
  LET got == _getSessionInfo(s.btn, up, sessions)
      s1  == [s EXCEPT !.btn = got.btn]
  IN IF username \notin DOMAIN got.info.sessions
       THEN [s |-> s1, activated |-> FALSE, sessionId |-> "", failed |-> FALSE]
     ELSE
       LET b2 == _ensureLoginManagerProxy(s1.btn, up)
       IN IF ~b2.loginManagerProxy
            THEN [s |-> [s1 EXCEPT !.btn = b2], activated |-> FALSE, sessionId |-> "",
                  failed |-> FALSE]
            ELSE [s |-> [s1 EXCEPT !.btn = b2],
                  activated |-> ok,
                  sessionId |-> got.info.sessions[username].sessionId,
                  failed |-> ~ok]

\* _activateUser asking for the login window whatever _activateUserSession returned
ActivateUserAlwaysFallback(s, user, up, sessions, ok) ==
  LET username == user.user_name
      clicked  == [s EXCEPT !.sel = [n |-> s.sel.n + 1, username |-> username,
                                     activateSession |-> "", activateFailed |-> FALSE,
                                     result |-> "NoOp"]]
  IN IF username = "" THEN clicked
     ELSE IF username = CurrentUserName THEN clicked
     ELSE
       LET r == _activateUserSession(clicked, username, up, sessions, ok)
       IN [_gotoLoginWindow(r.s) EXCEPT !.sel.activateSession = r.sessionId,
                                        !.sel.activateFailed = r.failed,
                                        !.sel.result = "FallbackToGreeter"]

\* _activateUser giving up when no session was activated
ActivateUserWithoutFallback(s, user, up, sessions, ok) ==
  LET username == user.user_name
      clicked  == [s EXCEPT !.sel = [n |-> s.sel.n + 1, username |-> username,
                                     activateSession |-> "", activateFailed |-> FALSE,
                                     result |-> "NoOp"]]
  IN IF username = "" THEN clicked
     ELSE IF username = CurrentUserName THEN clicked
     ELSE
       LET r == _activateUserSession(clicked, username, up, sessions, ok)
       IN IF r.activated
            THEN [r.s EXCEPT !.sel.activateSession = r.sessionId,
                             !.sel.activateFailed = r.failed,
                             !.sel.result = "Activated"]
            ELSE [r.s EXCEPT !.sel.activateSession = r.sessionId,
                             !.sel.activateFailed = r.failed]

\* _activateUser without the check for the current user
ActivateUserCurrentToo(s, user, up, sessions, ok) ==
  LET username == user.user_name
      clicked  == [s EXCEPT !.sel = [n |-> s.sel.n + 1, username |-> username,
                                     activateSession |-> "", activateFailed |-> FALSE,
                                     result |-> "NoOp"]]
  IN IF username = "" THEN clicked
     ELSE
       LET r == _activateUserSession(clicked, username, up, sessions, ok)
       IN IF r.activated
            THEN [r.s EXCEPT !.sel.activateSession = r.sessionId,
                             !.sel.activateFailed = r.failed,
                             !.sel.result = "Activated"]
            ELSE [_gotoLoginWindow(r.s) EXCEPT !.sel.activateSession = r.sessionId,
                                               !.sel.activateFailed = r.failed,
                                               !.sel.result = "FallbackToGreeter"]

\* _activateUser(user), user the account of the widget clicked: the menu
\* closes, the current user is left alone, another user's session is
\* activated or, failing that, the login window is asked for.
_activateUser(s, user, up, sessions, ok) ==
  LET username == user.user_name
      clicked  == [s EXCEPT !.sel = [n |-> s.sel.n + 1, username |-> username,
                                     activateSession |-> "", activateFailed |-> FALSE,
                                     result |-> "NoOp"]]
  IN IF username = "" THEN clicked
     ELSE IF username = CurrentUserName THEN clicked
     ELSE
       LET r == _activateUserSession(clicked, username, up, sessions, ok)
       IN IF r.activated
            THEN [r.s EXCEPT !.sel.activateSession = r.sessionId,
                             !.sel.activateFailed = r.failed,
                             !.sel.result = "Activated"]
            ELSE [_gotoLoginWindow(r.s) EXCEPT !.sel.activateSession = r.sessionId,
                                               !.sel.activateFailed = r.failed,
                                               !.sel.result = "FallbackToGreeter"]

\* ------------------------------------------------------- UserSwitcherController
NoController ==
  [alive |-> FALSE, userManager |-> FALSE, userManagerSignals |-> <<>>,
   userSwitcher |-> FALSE]

\* _updateVisibility
_updateVisibility(s, loaded, list, up, sessions) ==
  LET realUserCount == countRealUsers(s.ctl.userManager, loaded, list)
      shouldShow    == realUserCount > 1
  IN IF shouldShow /\ ~s.ctl.userSwitcher
       THEN LET s1 == NewButton(s, loaded, list, up, sessions)
            IN [s1 EXCEPT !.ctl.userSwitcher = TRUE, !.panel.added = @ + 1]
     ELSE IF ~shouldShow /\ s.ctl.userSwitcher
       THEN [ButtonDestroy(s) EXCEPT !.ctl.userSwitcher = FALSE]
     ELSE s

\* UserSwitcherController._initUserManager
ControllerInitUserManager(s, loaded, list, up, sessions) ==
  LET s1 == [s EXCEPT
               !.ctl.userManager = TRUE,
               !.ctl.userManagerSignals = [i \in 1..3 |-> s.nextHandlerId + i - 1],
               !.handlers = Connect(@, s.nextHandlerId, "userManager",
                              <<"notify::is-loaded", "user-added", "user-removed">>,
                              "controller"),
               !.nextHandlerId = @ + 3]
  IN IF loaded THEN _updateVisibility(s1, loaded, list, up, sessions) ELSE s1

\* new UserSwitcherController(extension)
NewController(s, loaded, list, up, sessions) ==
  ControllerInitUserManager([s EXCEPT !.ctl = [NoController EXCEPT !.alive = TRUE]],
                            loaded, list, up, sessions)

\* UserSwitcherController._disconnectUserManagerSignals
ControllerDisconnectUserManagerSignals(s) ==
  IF ~s.ctl.userManager THEN s
  ELSE [s EXCEPT !.handlers = Disconnect(@, s.ctl.userManagerSignals),
                 !.disconnects = Disconnecting(@, s.ctl.userManagerSignals),
                 !.ctl.userManagerSignals = <<>>]

\* destroy() dropping its reference to the switcher without destroying it
ControllerDestroyKeepingButton(s) ==
  LET s1 == ControllerDisconnectUserManagerSignals(s)
      s2 == [s1 EXCEPT !.ctl.userSwitcher = FALSE]
  IN [s2 EXCEPT !.ctl.userManager = FALSE, !.ctl.alive = FALSE]

\* UserSwitcherController.destroy
ControllerDestroy(s) ==
  LET s1 == ControllerDisconnectUserManagerSignals(s)
      s2 == IF s1.ctl.userSwitcher
              THEN [ButtonDestroy(s1) EXCEPT !.ctl.userSwitcher = FALSE]
              ELSE s1
  IN [s2 EXCEPT !.ctl.userManager = FALSE, !.ctl.alive = FALSE]

\* ------------------------------------------------------- signal emission
\* The user manager emits signal: the handlers connected when the emission
\* starts run in the order they were connected, the controller's before the
\* button's, and one disconnected meanwhile does not run.
Emit(s, signal, loaded, list, up, sessions) ==
  LET s1 == IF Connected(s.handlers, "userManager", signal, "controller")
              THEN _updateVisibility(s, loaded, list, up, sessions)
              ELSE s
  IN IF \E h \in s.handlers \cap s1.handlers :
          h.object = "userManager" /\ h.signal = signal /\ h.owner = "button"
       THEN _rebuildMenu(s1, loaded, list, up, sessions)
       ELSE s1

\* ------------------------------------------------------- initial states
\* The shell before anything asked for the login window: Main.screenShield
\* there or not, no lock requested, no repaint function registered, Gdm not
\* called. handoffRequests counts the calls of _gotoLoginWindow, handoffs the
\* calls of Gdm.goto_login_session_sync, lastHandoff tells how the last went.
NoHost(screenShield) ==
  [screenShield |-> screenShield, lockRequests |-> 0, handoffRequests |-> 0,
   repaintFuncs |-> {}, nextRepaintFuncId |-> 1, handoffs |-> 0,
   lastHandoff |-> "none"]

\* No widget clicked yet. n counts the clicks, username is the user of the
\* widget, activateSession the session id ActivateSession was called with
\* ("" if it was not called), activateFailed whether that call threw, result
\* what _activateUser did.
NoSelection ==
  [n |-> 0, username |-> "", activateSession |-> "", activateFailed |-> FALSE,
   result |-> "none"]

NoShell ==
  [handlers |-> {}, nextHandlerId |-> 1, ctl |-> NoController, btn |-> NoButton,
   panel |-> [added |-> 0, removed |-> 0], host |-> NoHost(TRUE), sel |-> NoSelection,
   disconnects |-> <<>>]

\* No direct call yet. fn names the function called last; userManager is the
\* argument of countRealUsers, count, users and info are what the functions
\* returned, menu is the menu as it was before _rebuildMenu ran again.
NoCall ==
  [fn |-> "none", userManager |-> FALSE, count |-> 0, users |-> <<>>,
   info |-> NoSessionInfo, menu |-> <<>>]

ShellIs(s) ==
  /\ handlers = s.handlers
  /\ nextHandlerId = s.nextHandlerId
  /\ ctl = s.ctl
  /\ btn = s.btn
  /\ panel = s.panel
  /\ host = s.host
  /\ sel = s.sel
  /\ disconnects = s.disconnects

\* The extension made a UserSwitcherController: the state after its constructor.
Init ==
  /\ isLoaded \in BOOLEAN
  /\ userList \in UserListsOver(UserPool)
  /\ sessionList = <<>>
  /\ busUp = TRUE
  /\ ShellIs(NewController(NoShell, isLoaded, userList, busUp, sessionList))
  /\ call = NoCall

\* ------------------------------------------------------- the user manager's events
\* A step that leaves the sessions and the direct calls alone and takes the
\* shell's objects to s, while the switcher was added at most MaxMounts times.
ShellStep(s) ==
  /\ s.panel.added <= MaxMounts
  /\ ShellBecomes(s)
  /\ UNCHANGED <<sessionList, busUp, call>>

\* The user manager finished loading: notify::is-loaded
OnNotifyIsLoaded ==
  /\ ~isLoaded
  /\ isLoaded' = TRUE
  /\ userList' = userList
  /\ ShellStep(Emit(Shell, "notify::is-loaded", TRUE, userList, busUp, sessionList))

\* An account appeared: user-added
OnUserAdded ==
  \E user \in UserPool :
    /\ Len(userList) < MaxUsers
    /\ UniqueNames(Append(userList, user))
    /\ userList' = Append(userList, user)
    /\ isLoaded' = isLoaded
    /\ ShellStep(Emit(Shell, "user-added", isLoaded, userList', busUp, sessionList))

\* An account went away: user-removed
OnUserRemoved ==
  \E i \in 1..Len(userList) :
    /\ userList' = SubSeq(userList, 1, i - 1) \o SubSeq(userList, i + 1, Len(userList))
    /\ isLoaded' = isLoaded
    /\ ShellStep(Emit(Shell, "user-removed", isLoaded, userList', busUp, sessionList))

\* The record of an account changed: user-changed
OnUserChanged ==
  \E i \in 1..Len(userList) : \E user \in UserPool :
    /\ user.user_name = userList[i].user_name
    /\ user # userList[i]
    /\ userList' = [userList EXCEPT ![i] = user]
    /\ isLoaded' = isLoaded
    /\ ShellStep(Emit(Shell, "user-changed", isLoaded, userList', busUp, sessionList))

\* user-is-logged-in-changed
OnUserIsLoggedInChanged ==
  /\ UNCHANGED <<isLoaded, userList>>
  /\ ShellStep(Emit(Shell, "user-is-logged-in-changed", isLoaded, userList, busUp, sessionList))

\* The button's menu opened or closed: open-state-changed
OnMenuOpenStateChanged ==
  \E open \in BOOLEAN :
    /\ Connected(handlers, "menu", "open-state-changed", "button")
    /\ UNCHANGED <<isLoaded, userList>>
    /\ ShellStep(IF open THEN _rebuildMenu(Shell, isLoaded, userList, busUp, sessionList)
                         ELSE Shell)

\* The extension destroys its controller.
DestroyController ==
  /\ ctl.alive
  /\ UNCHANGED <<isLoaded, userList>>
  /\ ShellStep(ControllerDestroy(Shell))

\* ------------------------------------------------------- specifications
Next ==
  \/ OnNotifyIsLoaded
  \/ OnUserAdded
  \/ OnUserRemoved
  \/ OnUserChanged
  \/ OnUserIsLoggedInChanged
  \/ OnMenuOpenStateChanged
  \/ DestroyController

Spec == Init /\ [][Next]_vars

\* ------------------------------------------------------- the controller's claims
\* The number of real users of the directory as it is now.
RealUsersNow == countRealUsers(TRUE, isLoaded, userList)

\* C1: while the controller is not torn down, the switcher is mounted if and
\* only if the directory, as it is now, counts more than one real user.
C1_ShownIffSeveralRealUsers ==
  ctl.alive => (ctl.userSwitcher <=> RealUsersNow > 1)

\* A step in which the user manager emits a signal the controller is
\* connected to: it finished loading, or an account was added or removed.
HandledEventStep ==
  /\ ctl.alive
  /\ isLoaded' # isLoaded \/ Len(userList') # Len(userList)

\* C2: an event the controller handles mounts once when the count of real
\* users rises above one, unmounts once when it falls back, and does neither
\* otherwise; the switcher is mounted at most once more than unmounted.
C2_MountOnlyOnCrossing ==
  [][HandledEventStep =>
       LET before == RealUsersNow > 1
           after  == countRealUsers(TRUE, isLoaded', userList') > 1
       IN /\ (before = after) => panel' = panel
          /\ (~before /\ after) =>
               /\ panel'.added = panel.added + 1
               /\ panel'.removed = panel.removed
               /\ ctl'.userSwitcher
          /\ (before /\ ~after) =>
               /\ panel'.removed = panel.removed + 1
               /\ panel'.added = panel.added
               /\ ~ctl'.userSwitcher
          /\ panel'.added - panel'.removed \in {0, 1}]_vars

\* C3: once destroy() has run the switcher is released and the controller
\* has no handler connected, and nothing the user manager emits afterwards
\* adds or removes a switcher.
C3_NothingAfterDestroy ==
  [][/\ ~ctl'.alive =>
          /\ ~ctl'.userSwitcher
          /\ ~btn'.alive
          /\ panel'.added = panel'.removed
          /\ ~(\E h \in handlers' : h.owner = "controller")
     /\ ~ctl.alive => (panel' = panel /\ btn' = btn)]_vars

\* A destroyed controller that had mounted and released its switcher, over a
\* loaded directory that by now holds more than one real user.
C3_Witness ==
  /\ ~ctl.alive
  /\ panel.added >= 1
  /\ panel.removed = panel.added
  /\ isLoaded
  /\ RealUsersNow > 1

\* ------------------------------------------------------- the functions, called directly
\* The records and sessions of the lists a menu is built from.
MenuUserPool ==
  { ActUser("alice", "Alice", UID_1000, FALSE, TRUE),
    ActUser("bob",   "Bob",   UID_1001, FALSE, TRUE),
    ActUser("bob",   "Bob",   UID_1001, TRUE,  TRUE),
    ActUser("carol", "Alice", UID_1000, FALSE, TRUE) }

MenuSessionPool ==
  { Session("1", "alice", SessionPath("_31"), "user",    "true"),
    Session("2", "bob",   SessionPath("_32"), "user",    "false"),
    Session("4", "bob",   SessionPath("_34"), "greeter", "true"),
    Session("6", "carol", SessionPath("_36"), "user",    "false") }

MenuSessionLists ==
  { l \in UNION { [1..n -> MenuSessionPool] : n \in 0..MaxSessions } : UniqueSessionIds(l) }

\* A button made while the user manager was still loading, its menu not built
\* yet, with or without its login1 proxy.
ProbeButton(proxy) ==
  [NewButton(NoShell, FALSE, <<>>, FALSE, <<>>)
     EXCEPT !.btn.loginManagerProxy = proxy, !.panel.added = 1]

\* The inputs of one direct call: an account list, or a session list, or both
\* from the smaller pools.
InitFn ==
  /\ call = NoCall
  /\ \/ /\ isLoaded \in BOOLEAN
        /\ userList \in UserListsOver(UserPool)
        /\ sessionList = <<>>
        /\ busUp = TRUE
        /\ ShellIs(ProbeButton(FALSE))
     \/ /\ isLoaded = TRUE
        /\ userList = <<>>
        /\ sessionList \in SessionLists
        /\ busUp \in BOOLEAN
        /\ \E proxy \in BOOLEAN : ShellIs(ProbeButton(proxy))
     \/ /\ isLoaded = TRUE
        /\ userList \in UserListsOver(MenuUserPool)
        /\ sessionList \in MenuSessionLists
        /\ busUp \in BOOLEAN
        /\ \E proxy \in BOOLEAN : ShellIs(ProbeButton(proxy))

\* countRealUsers(userManager), userManager null or the user manager
CallCountRealUsers ==
  \E userManager \in BOOLEAN :
    /\ call.fn = "none"
    /\ call' = [call EXCEPT !.fn = "countRealUsers",
                            !.userManager = userManager,
                            !.count = countRealUsers(userManager, isLoaded, userList)]
    /\ UNCHANGED <<isLoaded, userList, sessionList, busUp, handlers, nextHandlerId, disconnects,
                   ctl, btn, panel, host, sel>>

\* this._collectVisibleUsers(GLib.get_user_name()), which _rebuildMenu calls
\* once the user manager is loaded
CallCollectVisibleUsers ==
  /\ call.fn = "none"
  /\ isLoaded
  /\ call' = [call EXCEPT !.fn = "_collectVisibleUsers",
                          !.users = _collectVisibleUsers(userList, CurrentUserName)]
  /\ UNCHANGED <<isLoaded, userList, sessionList, busUp, handlers, nextHandlerId, disconnects,
                 ctl, btn, panel, host, sel>>

\* this._getSessionInfo()
CallGetSessionInfo ==
  /\ call.fn = "none"
  /\ LET got == _getSessionInfo(btn, busUp, sessionList)
     IN /\ btn' = got.btn
        /\ call' = [call EXCEPT !.fn = "_getSessionInfo", !.info = got.info]
  /\ UNCHANGED <<isLoaded, userList, sessionList, busUp, handlers, nextHandlerId, disconnects,
                 ctl, panel, host, sel>>

\* this._rebuildMenu(), and once more with nothing changed in between
CallRebuildMenu ==
  /\ call.fn \in {"none", "_rebuildMenu"}
  /\ call' = [call EXCEPT !.fn = IF call.fn = "none" THEN "_rebuildMenu"
                                                     ELSE "_rebuildMenu again",
                          !.menu = btn.menu]
  /\ ShellBecomes(_rebuildMenu(Shell, isLoaded, userList, busUp, sessionList))
  /\ UNCHANGED <<isLoaded, userList, sessionList, busUp>>

NextFn ==
  \/ CallCountRealUsers
  \/ CallCollectVisibleUsers
  \/ CallGetSessionInfo
  \/ CallRebuildMenu

SpecFn == InitFn /\ [][NextFn]_vars

\* ------------------------------------------------------- the functions' claims
\* The uid of a record as a number (NaN when it is not one).
UidOf(user) == ParseInt(IF user.uid.null THEN <<"-", "1">> ELSE user.uid.text)

HasRealUid(user) == IsFinite(UidOf(user)) /\ UidOf(user).val >= 1000

HasNegativeUid(user) == IsFinite(UidOf(user)) /\ UidOf(user).val < 0

\* The positions of the directory's list whose record satisfies P.
Records(P(_)) == { i \in DOMAIN userList : P(userList[i]) }

\* Whether the view model returned last has a row for the record.
InRows(user) == \E k \in DOMAIN call.users : call.users[k] = user

\* C4 as stated: the count is the number of records with uid >= 1000 that
\* are no system accounts, and 0 while the service is loading.
C4_CountsByUidAndFlag ==
  (call.fn = "countRealUsers" /\ call.userManager) =>
    call.count = IF isLoaded
                   THEN Cardinality(Records(LAMBDA u : HasRealUid(u) /\ ~u.system_account))
                   ELSE 0

\* C4: the count is the number of loaded records with a username, a uid
\* >= 1000 and no system-account flag; it is 0 while the service is loading
\* and without a user manager.
C4_CountsLoadedNamedRealUsers ==
  call.fn = "countRealUsers" =>
    call.count = IF call.userManager /\ isLoaded
                   THEN Cardinality(Records(LAMBDA u :
                          /\ u.is_loaded
                          /\ u.user_name # ""
                          /\ HasRealUid(u)
                          /\ ~u.system_account))
                   ELSE 0

\* countRealUsers counted two of three records and passed by a record with a
\* uid >= 1000 and no system flag that is not loaded or has no username.
C4_Witness ==
  /\ call.fn = "countRealUsers"
  /\ call.userManager
  /\ isLoaded
  /\ Len(userList) = 3
  /\ call.count = 2
  /\ \E i \in DOMAIN userList :
       /\ HasRealUid(userList[i])
       /\ ~userList[i].system_account
       /\ ~userList[i].is_loaded \/ userList[i].user_name = ""

\* C5 as stated: whenever the current user has a record, the view model has
\* the current user's row, first.
C5_CurrentUserFirstWheneverListed ==
  (call.fn = "_collectVisibleUsers"
     /\ Records(LAMBDA u : u.user_name = CurrentUserName) # {}) =>
    /\ Len(call.users) >= 1
    /\ call.users[1].user_name = CurrentUserName

\* C5: whenever the current user has a loaded record with a parsable uid,
\* the view model has that record's row, first, whatever the uid and the
\* system-account flag are.
C5_LoadedCurrentUserFirst ==
  call.fn = "_collectVisibleUsers" =>
    \A i \in DOMAIN userList :
      (/\ userList[i].user_name = CurrentUserName
       /\ userList[i].is_loaded
       /\ IsFinite(UidOf(userList[i]))) =>
        /\ Len(call.users) >= 1
        /\ call.users[1] = userList[i]

\* The current user, a system account with a uid below 1000 listed last,
\* heads a view model of three rows.
C5_Witness ==
  /\ call.fn = "_collectVisibleUsers"
  /\ Len(userList) = 3
  /\ userList[3].user_name = CurrentUserName
  /\ userList[3].system_account
  /\ ~HasRealUid(userList[3])
  /\ Len(call.users) = 3
  /\ call.users[1] = userList[3]

\* Each row is a record of the list, no record has two rows, and the records
\* with a row are those satisfying Visible.
OneRowPerRecord(Visible(_)) ==
  /\ \A k \in DOMAIN call.users : \E i \in DOMAIN userList : userList[i] = call.users[k]
  /\ \A j, k \in DOMAIN call.users : j # k => call.users[j] # call.users[k]
  /\ \A i \in DOMAIN userList : InRows(userList[i]) <=> Visible(userList[i])

\* C6 as stated: an account other than the current user is shown if and only
\* if its uid is >= 1000 and it is no system account, and the rows are one
\* for each account shown (the current user's row is left to C5).
C6_OthersShownByUidAndFlag ==
  call.fn = "_collectVisibleUsers" =>
    OneRowPerRecord(LAMBDA u :
      IF u.user_name = CurrentUserName
        THEN InRows(u)
        ELSE HasRealUid(u) /\ ~u.system_account)

\* C6: an account other than the current user is shown if and only if its
\* record is loaded, has a username, a uid >= 1000 and no system-account
\* flag; the rows are one for each of these and one for the current user's
\* record when that is loaded with a parsable uid, and no others.
C6_OthersShownIfLoadedNamedReal ==
  call.fn = "_collectVisibleUsers" =>
    OneRowPerRecord(LAMBDA u :
      /\ u.is_loaded
      /\ u.user_name # ""
      /\ IsFinite(UidOf(u))
      /\ \/ u.user_name = CurrentUserName
         \/ HasRealUid(u) /\ ~u.system_account)

\* A view model of two rows from three records: another user's record with
\* uid 1000 is shown, one that is a system account or has a lower uid is not.
C6_Witness ==
  /\ call.fn = "_collectVisibleUsers"
  /\ Len(userList) = 3
  /\ Len(call.users) = 2
  /\ \E i \in DOMAIN userList :
       /\ userList[i].user_name # CurrentUserName
       /\ UidOf(userList[i]) = Num(1000)
       /\ InRows(userList[i])
  /\ \E i \in DOMAIN userList :
       /\ userList[i].user_name \notin {CurrentUserName, ""}
       /\ userList[i].is_loaded
       /\ IsFinite(UidOf(userList[i]))
       /\ ~InRows(userList[i])

\* C7 as stated: a record with an unparsable or negative uid, without a
\* username or not loaded has no row, the current user's included.
C7_DegenerateNeverShown ==
  call.fn = "_collectVisibleUsers" =>
    \A i \in DOMAIN userList :
      (\/ ~IsFinite(UidOf(userList[i]))
       \/ HasNegativeUid(userList[i])
       \/ userList[i].user_name = ""
       \/ ~userList[i].is_loaded) => ~InRows(userList[i])

\* C7: a record with an unparsable uid, without a username or not loaded has
\* no row, the current user's included; a record with a negative uid has no
\* row unless it is the current user's, loaded, which has one.
C7_DegenerateShownOnlyIfCurrentNegative ==
  call.fn = "_collectVisibleUsers" =>
    \A i \in DOMAIN userList :
      /\ (\/ ~IsFinite(UidOf(userList[i]))
          \/ userList[i].user_name = ""
          \/ ~userList[i].is_loaded) => ~InRows(userList[i])
      /\ HasNegativeUid(userList[i]) =>
           (InRows(userList[i]) <=>
              userList[i].user_name = CurrentUserName /\ userList[i].is_loaded)

\* The current user's record has an unparsable uid or is not loaded, another
\* record has no usable uid either, and the view model has one row, the third
\* record's.
C7_Witness ==
  /\ call.fn = "_collectVisibleUsers"
  /\ Len(userList) = 3
  /\ Len(call.users) = 1
  /\ call.users[1].user_name # CurrentUserName
  /\ \E i \in DOMAIN userList :
       /\ userList[i].user_name = CurrentUserName
       /\ ~IsFinite(UidOf(userList[i])) \/ ~userList[i].is_loaded
  /\ \E i \in DOMAIN userList :
       /\ userList[i].user_name \notin {CurrentUserName, ""}
       /\ ~IsFinite(UidOf(userList[i])) \/ HasNegativeUid(userList[i])

\* The position of a row's record in the directory's list.
PositionOf(user) == CHOOSE i \in DOMAIN userList : userList[i] = user

\* C8: the rows of the accounts other than the current user ascend by the
\* collation of their display names, and rows whose display names collate
\* equal stand in the order of the directory's list.
C8_OthersAscendStably ==
  call.fn = "_collectVisibleUsers" =>
    \A j, k \in DOMAIN call.users :
      (/\ j < k
       /\ call.users[j].user_name # CurrentUserName
       /\ call.users[k].user_name # CurrentUserName) =>
        LET nameJ == IF call.users[j].real_name # "" THEN call.users[j].real_name
                                                     ELSE call.users[j].user_name
            nameK == IF call.users[k].real_name # "" THEN call.users[k].real_name
                                                     ELSE call.users[k].user_name
        IN /\ CollationKey(nameJ) <= CollationKey(nameK)
           /\ CollationKey(nameJ) = CollationKey(nameK) =>
                PositionOf(call.users[j]) < PositionOf(call.users[k])

\* Two other users with equal display names, the later username listed
\* first, follow the current user in the directory's order.
C8_Witness ==
  /\ call.fn = "_collectVisibleUsers"
  /\ Len(call.users) = 3
  /\ call.users[1].user_name = CurrentUserName
  /\ call.users[2].user_name = "carol"
  /\ call.users[3].user_name = "bob"
  /\ call.users[2].real_name = call.users[3].real_name

\* C9: _rebuildMenu called again with nothing changed leaves the menu with
\* the same items and the same rows in the same order.
C9_RebuildAgainSameMenu ==
  call.fn = "_rebuildMenu again" => btn.menu = call.menu

\* The menu rebuilt twice holds a grid of at least two rows, one of them of
\* a user who is signed in.
C9_Witness ==
  /\ call.fn = "_rebuildMenu again"
  /\ Len(btn.menu) = 5
  /\ btn.menu[1].kind = "grid"
  /\ Len(btn.menu[1].rows) >= 2
  /\ \E k \in DOMAIN btn.menu[1].rows :
       /\ btn.menu[1].rows[k].isSignedIn
       /\ ~btn.menu[1].rows[k].isCurrent

Usernames == {"alice", "bob", "carol"}

\* The positions of the user-class sessions of a user in the session list.
UserSessions(name) ==
  { i \in DOMAIN sessionList :
      /\ sessionList[i].userName = name
      /\ StartsWith(sessionList[i].sessionPath, SessionPathPrefix)
      /\ sessionList[i].Class = "user" }

ActiveUserSessions(name) ==
  { i \in UserSessions(name) : sessionList[i].Active = "true" }

First(S) == CHOOSE i \in S : \A j \in S : i <= j

\* C10: of the session list ListSessions answered, each user keeps at most
\* one preferred session: the first active user-class session if the user
\* has one, else the first user-class session, and none without a
\* user-class session.
C10_PreferredSession ==
  (call.fn = "_getSessionInfo" /\ busUp) =>
    /\ DOMAIN call.info.sessions \subseteq Usernames
    /\ \A name \in Usernames :
         IF UserSessions(name) = {}
           THEN name \notin DOMAIN call.info.sessions
           ELSE /\ name \in DOMAIN call.info.sessions
                /\ call.info.sessions[name].sessionId =
                     sessionList[IF ActiveUserSessions(name) # {}
                                   THEN First(ActiveUserSessions(name))
                                   ELSE First(UserSessions(name))].sessionId
                /\ call.info.sessions[name].isActive = (ActiveUserSessions(name) # {})

\* An inactive session of a user, then an active one, then another user's
\* only session: the active one and the only one are kept.
C10_Witness ==
  /\ call.fn = "_getSessionInfo"
  /\ busUp
  /\ Len(sessionList) = 3
  /\ sessionList[1].userName = "bob" /\ sessionList[1].Active = "false"
  /\ sessionList[2].userName = "bob" /\ sessionList[2].Active = "true"
  /\ sessionList[2].Class = "user"
  /\ sessionList[3].userName = "carol" /\ sessionList[3].Class = "user"
  /\ DOMAIN call.info.sessions = {"bob", "carol"}
  /\ call.info.sessions["bob"].sessionId = sessionList[2].sessionId
  /\ call.info.sessions["carol"].sessionId = sessionList[3].sessionId

\* ------------------------------------------------------- the signed-in mark
\* C11: in a menu built while login1 answers, a row is marked signed in if
\* and only if its user owns at least one session of class user in the
\* session list the menu was built from.
C11_SignedInIffUserClassSession ==
  (call.fn = "_rebuildMenu" /\ busUp /\ Len(btn.menu) = 5 /\ btn.menu[1].kind = "grid") =>
    \A k \in DOMAIN btn.menu[1].rows :
      btn.menu[1].rows[k].isSignedIn <=>
        UserSessions(btn.menu[1].rows[k].user.user_name) # {}

\* ------------------------------------------------------- the button on its own
\* The accounts and the sessions the button is run with.
ButtonUserLists ==
  { << ActUser("carol", "Alice", UID_1000, FALSE, TRUE),
       ActUser("bob",   "Bob",   UID_1001, FALSE, TRUE),
       ActUser("alice", "Alice", UID_1000, FALSE, TRUE) >> }

\* The session the shell itself runs in.
CurrentSession == Session("1", "alice", SessionPath("_31"), "user", "true")

\* The sessions that begin and end while the button is there.
ButtonSessionPool ==
  { Session("2", "bob", SessionPath("_32"), "user",    "false"),
    Session("2", "bob", SessionPath("_32"), "user",    "true"),
    Session("3", "bob", SessionPath("_33"), "user",    "false"),
    Session("4", "bob", SessionPath("_34"), "greeter", "true") }

\* The extension made a UserSwitcherButton and added it to the panel, the
\* user manager loaded, nobody but the current user signed in, login1
\* answering or not.
InitButton ==
  /\ isLoaded = TRUE
  /\ userList \in ButtonUserLists
  /\ sessionList = <<CurrentSession>>
  /\ busUp \in BOOLEAN
  /\ \E screenShield \in BOOLEAN :
       ShellIs([NewButton([NoShell EXCEPT !.host = NoHost(screenShield)],
                          isLoaded, userList, busUp, sessionList)
                  EXCEPT !.panel.added = 1])
  /\ call = NoCall

\* login1: a session began
SessionNew ==
  \E session \in ButtonSessionPool :
    /\ Len(sessionList) < MaxLiveSessions
    /\ UniqueSessionIds(Append(sessionList, session))
    /\ sessionList' = Append(sessionList, session)
    /\ UNCHANGED <<isLoaded, userList, busUp, handlers, nextHandlerId, disconnects, ctl, btn, panel,
                   host, sel, call>>

\* login1: a session other than the shell's own ended
SessionRemoved ==
  \E i \in 1..Len(sessionList) :
    /\ sessionList[i] # CurrentSession
    /\ sessionList' = SubSeq(sessionList, 1, i - 1) \o SubSeq(sessionList, i + 1, Len(sessionList))
    /\ UNCHANGED <<isLoaded, userList, busUp, handlers, nextHandlerId, disconnects, ctl, btn, panel,
                   host, sel, call>>

\* login1: a session became active, or stopped being active
SessionActiveChanged ==
  \E i \in 1..Len(sessionList) : \E session \in ButtonSessionPool :
    /\ session.sessionId = sessionList[i].sessionId
    /\ session # sessionList[i]
    /\ sessionList' = [sessionList EXCEPT ![i] = session]
    /\ UNCHANGED <<isLoaded, userList, busUp, handlers, nextHandlerId, disconnects, ctl, btn, panel,
                   host, sel, call>>

\* org.freedesktop.login1 stops or starts answering
BusChange ==
  /\ busUp' = ~busUp
  /\ UNCHANGED <<isLoaded, userList, sessionList, handlers, nextHandlerId, disconnects, ctl, btn, panel,
                 host, sel, call>>

\* The clicks so far on users' widgets and for the login window.
Clicks == sel.n + host.handoffRequests

\* A click on the widget of a user in the menu; ok is whether ActivateSession
\* succeeds if it is called.
ClickUser ==
  \E ok \in BOOLEAN :
    /\ btn.alive
    /\ Clicks < MaxClicks
    /\ Len(btn.menu) > 0
    /\ btn.menu[1].kind = "grid"
    /\ \E k \in DOMAIN btn.menu[1].rows :
         ShellBecomes(_activateUser(Shell, btn.menu[1].rows[k].user, busUp, sessionList, ok))
    /\ UNCHANGED <<isLoaded, userList, sessionList, busUp, call>>

\* A click on 'Login Window...': the menu closes and _gotoLoginWindow runs.
ClickLoginWindow ==
  /\ btn.alive
  /\ Clicks < MaxClicks
  /\ \E k \in DOMAIN btn.menu : btn.menu[k].kind = "Login Window..."
  /\ ShellBecomes(_gotoLoginWindow(Shell))
  /\ UNCHANGED <<isLoaded, userList, sessionList, busUp, call>>

\* Clutter finished painting a frame while a repaint function is registered;
\* ok is whether Gdm.goto_login_session_sync succeeds.
RepaintFrame ==
  \E ok \in BOOLEAN :
    /\ host.repaintFuncs # {}
    /\ ShellBecomes(RunRepaintFuncs(Shell, ok))
    /\ UNCHANGED <<isLoaded, userList, sessionList, busUp, call>>

\* The extension is disabled: it destroys its button.
DestroyButton ==
  /\ btn.alive
  /\ ShellBecomes(ButtonDestroy(Shell))
  /\ UNCHANGED <<isLoaded, userList, sessionList, busUp, call>>

NextButton ==
  \/ SessionNew
  \/ SessionRemoved
  \/ SessionActiveChanged
  \/ BusChange
  \/ OnUserIsLoggedInChanged
  \/ OnMenuOpenStateChanged
  \/ ClickUser
  \/ ClickLoginWindow
  \/ RepaintFrame
  \/ DestroyButton

SpecButton == InitButton /\ [][NextButton]_vars

\* ------------------------------------------------------- the clicks' claims
\* A step in which a user's widget was clicked.
UserClicked == sel'.n = sel.n + 1

\* C12: a click on the current user's widget is a NoOp in every state: no
\* ActivateSession call, no request for the login window, no lock, no repaint
\* function registered, and the button's fields as they were.
C12_CurrentUserNoOp ==
  [][(UserClicked /\ sel'.username = CurrentUserName) =>
       /\ sel'.result = "NoOp"
       /\ sel'.activateSession = ""
       /\ host' = host
       /\ btn' = btn]_vars

\* The current user's widget was clicked while login1 answered and listed the
\* current user's own active session, and nothing was asked of the shell.
C12_Witness ==
  /\ sel.n >= 1
  /\ sel.username = CurrentUserName
  /\ sel.result = "NoOp"
  /\ busUp
  /\ btn.alive
  /\ \E i \in DOMAIN sessionList : sessionList[i] = CurrentSession
  /\ host.handoffRequests = 0

\* A step in which the widget of a user other than the current one was clicked.
OtherUserClicked == UserClicked /\ sel'.username # CurrentUserName

\* C13: a click on another user's widget while the session list holds no
\* user-class session of that user falls back to the login window: no
\* ActivateSession call, and _gotoLoginWindow runs exactly once.
C13_NoSessionFallsBack ==
  [][(OtherUserClicked /\ UserSessions(sel'.username) = {}) =>
       /\ sel'.result = "FallbackToGreeter"
       /\ sel'.activateSession = ""
       /\ host'.handoffRequests = host.handoffRequests + 1
       /\ host'.repaintFuncs # {}]_vars

\* bob, who owns only a greeter session, was clicked while login1 answered:
\* the login window was asked for once and no session was activated.
C13_Witness ==
  /\ sel.n = 1
  /\ sel.username = "bob"
  /\ sel.result = "FallbackToGreeter"
  /\ sel.activateSession = ""
  /\ busUp
  /\ UserSessions("bob") = {}
  /\ \E i \in DOMAIN sessionList :
       sessionList[i].userName = "bob" /\ sessionList[i].Class = "greeter"
  /\ host.handoffRequests = 1

\* The id of the preferred session of a user in the session list as it is:
\* the first active user-class session, else the first user-class session.
PreferredSessionId(name) ==
  sessionList[IF ActiveUserSessions(name) # {} THEN First(ActiveUserSessions(name))
                                               ELSE First(UserSessions(name))].sessionId

\* C14: a click on another user's widget, login1 answering and listing a
\* preferred session of that user, calls ActivateSession with that session's
\* id; if the call succeeds the result is Activated and nothing is asked of
\* the shell, if it fails the result is FallbackToGreeter; and a click asks
\* for the login window, once, if and only if its result is FallbackToGreeter.
C14_ActivateOrFallBack ==
  [][OtherUserClicked =>
       /\ (busUp /\ UserSessions(sel'.username) # {}) =>
            /\ sel'.activateSession = PreferredSessionId(sel'.username)
            /\ sel'.result = IF sel'.activateFailed THEN "FallbackToGreeter"
                                                    ELSE "Activated"
       /\ sel'.result = "Activated" => host' = host
       /\ sel'.result \in {"Activated", "FallbackToGreeter"}
       /\ host'.handoffRequests =
            host.handoffRequests + (IF sel'.result = "FallbackToGreeter" THEN 1 ELSE 0)]_vars

\* bob was clicked twice while his active session 2 was listed after his
\* inactive session 3: one ActivateSession call failed and the login window
\* was asked for, the next succeeded and asked for nothing more.
C14_Witness ==
  /\ sel.n = 2
  /\ sel.username = "bob"
  /\ sel.result = "Activated"
  /\ sel.activateSession = "2"
  /\ ~sel.activateFailed
  /\ host.handoffRequests = 1
  /\ busUp
  /\ Len(sessionList) = 3
  /\ sessionList[2].sessionId = "3"
  /\ sessionList[3].sessionId = "2" /\ sessionList[3].Active = "true"

\* Whether the menu, as it was last built, marks the user signed in.
MarkedSignedIn(name) ==
  /\ Len(btn.menu) > 0
  /\ \E k \in DOMAIN btn.menu[1].rows :
       /\ btn.menu[1].rows[k].user.user_name = name
       /\ btn.menu[1].rows[k].isSignedIn

\* C15: whatever sessions began, ended or changed their active state since the
\* menu was built, a click on another user's widget while login1 answers
\* passes ActivateSession the preferred session of the session list as it is
\* at the click, and calls nothing exactly if that list holds no user-class
\* session of the user, whatever the widget's signed-in mark says.
C15_SessionsReadAtClick ==
  [][(OtherUserClicked /\ busUp) =>
       sel'.activateSession =
         IF UserSessions(sel'.username) = {} THEN ""
         ELSE PreferredSessionId(sel'.username)]_vars

\* bob's widget, built before bob had a session and so not marked signed in,
\* was clicked after his sessions 3 and then 2 began and 2 became active:
\* session 2 was activated.
C15_Witness ==
  /\ sel.n >= 1
  /\ sel.username = "bob"
  /\ sel.result = "Activated"
  /\ sel.activateSession = "2"
  /\ btn.alive
  /\ ~MarkedSignedIn("bob")
  /\ Len(sessionList) = 3
  /\ sessionList[2].sessionId = "3"
  /\ sessionList[3].sessionId = "2" /\ sessionList[3].Active = "true"

\* ------------------------------------------------------- the login window's claims
\* A step in which _gotoLoginWindow ran.
LoginWindowRequested == host'.handoffRequests = host.handoffRequests + 1

\* A step in which Gdm.goto_login_session_sync was called.
HandoffPerformed == host'.handoffs # host.handoffs

\* C16: the step that asks for the login window requests the lock if there is
\* a screen shield, registers a repaint function and calls Gdm not at all; Gdm
\* is called only by a registered repaint function when a later frame has
\* been painted, so after its request and, with a screen shield, after the
\* lock request of that request.
C16_HandoffAfterLockAndFrame ==
  [][/\ LoginWindowRequested =>
          /\ ~HandoffPerformed
          /\ host'.lockRequests = host.lockRequests + (IF host.screenShield THEN 1 ELSE 0)
          /\ btn'.repaintFuncId # 0
          /\ btn'.repaintFuncId \in host'.repaintFuncs
     /\ HandoffPerformed =>
          /\ ~LoginWindowRequested
          /\ host.repaintFuncs # {}
          /\ btn.repaintFuncId \in host.repaintFuncs
          /\ host'.repaintFuncs = {}
          /\ host'.handoffs <= host.handoffRequests
          /\ host.screenShield => host.lockRequests = host.handoffRequests
     /\ ~LoginWindowRequested => host'.lockRequests = host.lockRequests]_vars

\* With a screen shield: the login window was asked for, the lock requested,
\* and a frame later Gdm was called.
C16_Witness ==
  /\ host.screenShield
  /\ host.handoffRequests = 1
  /\ host.lockRequests = 1
  /\ host.handoffs = 1
  /\ host.repaintFuncs = {}
  /\ btn.alive
  /\ btn.repaintFuncId = 0

\* C17: at most one repaint function of the button is registered at any
\* time: asking for the login window unregisters the one registered before
\* and registers a new one, so however many requests came before a frame, that
\* frame calls Gdm exactly once.
C17_OnePendingHandoff ==
  [][/\ Cardinality(host'.repaintFuncs) <= 1
     /\ LoginWindowRequested =>
          /\ host'.repaintFuncs = {btn'.repaintFuncId}
          /\ host'.repaintFuncs \cap host.repaintFuncs = {}
     /\ HandoffPerformed => host'.handoffs = host.handoffs + 1]_vars

\* The login window was asked for twice before a frame was painted, and that
\* frame called Gdm once and left nothing registered.
C17_Witness ==
  /\ btn.alive
  /\ host.handoffRequests = 2
  /\ host.handoffs = 1
  /\ host.repaintFuncs = {}
  /\ btn.repaintFuncId = 0

\* C18: destroy() unregisters the repaint function that is still pending, and
\* once the button is destroyed no frame calls Gdm any more.
C18_NoHandoffAfterDestroy ==
  [][/\ ~btn'.alive => (host'.repaintFuncs = {} /\ btn'.repaintFuncId = 0)
     /\ ~btn.alive => host'.handoffs = host.handoffs]_vars

\* The button was destroyed while the repaint function of its last request
\* for the login window was still registered: Gdm was never called.
C18_Witness ==
  /\ ~btn.alive
  /\ host.handoffRequests >= 1
  /\ host.handoffs = 0
  /\ host.repaintFuncs = {}

\* ------------------------------------------------------- login1 failing
\* No widget of the menu is marked signed in.
NobodyMarked(menu) ==
  /\ Len(menu) = 5
  /\ \A k \in DOMAIN menu[1].rows : ~menu[1].rows[k].isSignedIn

\* C19: no failure of login1 or Gdm gets past the button. While login1 does
\* not answer, a click on another user finds no session, calls nothing and
\* falls back, and a rebuild yields a whole menu with nobody marked; an
\* ActivateSession call that throws counts as not activated and falls back; a
\* Gdm call that throws is dropped by the repaint function. Each time the
\* button stays alive with its handlers connected.
C19_FailuresAbsorbed ==
  [][/\ (OtherUserClicked /\ ~busUp) =>
          /\ sel'.activateSession = ""
          /\ sel'.result = "FallbackToGreeter"
          /\ btn'.alive /\ btn'.menu = btn.menu /\ handlers' = handlers
     /\ (OtherUserClicked /\ sel'.activateFailed) =>
          /\ sel'.result = "FallbackToGreeter"
          /\ btn'.alive /\ btn'.loginManagerProxy /\ handlers' = handlers
     /\ (btn'.alive /\ btn'.menu # btn.menu /\ ~busUp) => NobodyMarked(btn'.menu)
     /\ (HandoffPerformed /\ host'.lastHandoff = "failed") =>
          /\ btn' = [btn EXCEPT !.repaintFuncId = 0]
          /\ host'.repaintFuncs = {}
          /\ handlers' = handlers]_vars

\* A click on bob fell back to the login window, the Gdm call of the frame
\* after it threw, and with login1 answering another click on bob activated
\* his session.
C19_Witness ==
  /\ sel.n = 2
  /\ sel.username = "bob"
  /\ sel.result = "Activated"
  /\ host.handoffRequests = 1
  /\ host.handoffs = 1
  /\ host.lastHandoff = "failed"
  /\ btn.alive
  /\ btn.loginManagerProxy
  /\ busUp

\* A step in which the button built its menu anew.
MenuRebuilt == btn'.alive /\ btn'.menu # btn.menu

\* C20: the login1 proxy, once made, is kept until destroy() whether login1
\* still answers or not; while there is none, every click on another user and
\* every rebuild tries to make it, gets it exactly if login1 answers, and
\* otherwise finds no session and leaves the proxy unset for the next try.
C20_ProxyMadeOnceRetriedOnFailure ==
  [][/\ (btn.loginManagerProxy /\ btn'.alive) => btn'.loginManagerProxy
     /\ (~btn.loginManagerProxy /\ btn'.loginManagerProxy) => busUp
     /\ ((OtherUserClicked \/ MenuRebuilt) /\ ~btn.loginManagerProxy) =>
          btn'.loginManagerProxy = busUp
     /\ (OtherUserClicked /\ ~btn'.loginManagerProxy) =>
          (sel'.activateSession = "" /\ sel'.result = "FallbackToGreeter")
     /\ (MenuRebuilt /\ ~btn'.loginManagerProxy) => NobodyMarked(btn'.menu)]_vars

\* The menu was last built while login1 gave no answer, bob's session was
\* activated through the proxy, and the proxy is still held now that login1
\* does not answer.
C20_Witness ==
  /\ btn.alive
  /\ btn.loginManagerProxy
  /\ ~busUp
  /\ Len(btn.menu) = 5
  /\ ~MarkedSignedIn("alice")
  /\ sel.username = "bob"
  /\ sel.result = "Activated"

\* ------------------------------------------------------- the handlers' claims
\* How often disconnect() was called with the id.
TimesDisconnected(id) ==
  Cardinality({ i \in DOMAIN disconnects : disconnects[i] = id })

\* The ids of the handlers connected now.
ConnectedIds == { h.id : h \in handlers }

\* C21: disconnect() is called at most once with any id, only with ids that
\* connect() returned, and never leaves such a handler connected; a destroyed
\* button has none of its handlers connected, on the user manager or on its
\* menu, and once the controller is destroyed every id ever returned was
\* disconnected exactly once, whether the button went when the count of real
\* users fell or with the controller.
C21_HandlesRevokedOnce ==
  /\ \A id \in 1..(nextHandlerId - 1) :
       /\ TimesDisconnected(id) <= 1
       /\ (TimesDisconnected(id) = 1) <=> (id \notin ConnectedIds)
  /\ \A i \in DOMAIN disconnects : disconnects[i] \in 1..(nextHandlerId - 1)
  /\ ~btn.alive => ~(\E h \in handlers : h.owner = "button")
  /\ ~ctl.alive =>
       /\ handlers = {}
       /\ \A id \in 1..(nextHandlerId - 1) : TimesDisconnected(id) = 1

\* The switcher was mounted twice: it went once when the count of real users
\* fell and once with the controller, and the 3 + 6 + 6 handlers connected
\* over that time were each disconnected.
C21_Witness ==
  /\ ~ctl.alive
  /\ panel.added = 2
  /\ panel.removed = 2
  /\ nextHandlerId = 16
  /\ Len(disconnects) = 15
  /\ handlers = {}

\* ------------------------------------------------------- the empty menu
\* The accounts the menu shows for the directory as it is now.
VisibleUsersNow == _collectVisibleUsers(userList, CurrentUserName)

InitSwitcher ==
  /\ isLoaded = TRUE
  /\ userList \in { l \in UserListsOver(MenuUserPool) :
                      countRealUsers(TRUE, TRUE, l) > 1 }
  /\ sessionList = <<CurrentSession>>
  /\ busUp = TRUE
  /\ \E screenShield \in BOOLEAN :
       ShellIs(NewController([NoShell EXCEPT !.host = NoHost(screenShield)],
                             isLoaded, userList, busUp, sessionList))
  /\ call = NoCall

\* An account of the menu's pool appeared: user-added
OnMenuUserAdded ==
  \E user \in MenuUserPool :
    /\ Len(userList) < MaxUsers
    /\ UniqueNames(Append(userList, user))
    /\ userList' = Append(userList, user)
    /\ isLoaded' = isLoaded
    /\ ShellStep(Emit(Shell, "user-added", isLoaded, userList', busUp, sessionList))

\* The record of an account changed to another of the menu's pool: user-changed
OnMenuUserChanged ==
  \E i \in 1..Len(userList) : \E user \in MenuUserPool :
    /\ user.user_name = userList[i].user_name
    /\ user # userList[i]
    /\ userList' = [userList EXCEPT ![i] = user]
    /\ isLoaded' = isLoaded
    /\ ShellStep(Emit(Shell, "user-changed", isLoaded, userList', busUp, sessionList))

NextSwitcher ==
  \/ OnMenuUserAdded
  \/ OnUserRemoved
  \/ OnMenuUserChanged
  \/ OnMenuOpenStateChanged
  \/ ClickUser
  \/ ClickLoginWindow
  \/ RepaintFrame
  \/ DestroyController

SpecSwitcher == InitSwitcher /\ [][NextSwitcher]_vars

\* ------------------------------------------------------- visibility and handoff
\* A step in which the directory changed and its count of real users fell
\* from more than one to one or none.
RealUsersFell ==
  /\ userList' # userList
  /\ RealUsersNow > 1
  /\ countRealUsers(TRUE, isLoaded', userList') <= 1

\* C23: when, with a request for the login window pending (the lock
\* requested, the repaint function registered, no frame painted since), an
\* account event takes the count of real users to one or none, the controller
\* destroys the switcher and with it the pending repaint function, so that
\* Gdm is not called for that request.
C23_UnmountCancelsHandoff ==
  [][(ctl.alive /\ btn.alive /\ host.repaintFuncs # {} /\ RealUsersFell) =>
       /\ ~ctl'.userSwitcher
       /\ ~btn'.alive
       /\ host'.repaintFuncs = {}
       /\ host'.handoffs = host.handoffs
       /\ host'.lockRequests = host.lockRequests]_vars

====
